---- MODULE Spec2Model ----
(***************************************************************************)
(* FarmTrack local persistence layer: the useIndexedDB hook                *)
(* (src/hooks/use-indexed-db.ts) and the DatabaseProvider built on it      *)
(* (src/unnamed/part_003, lines 95-583).  Every handler runs to completion *)
(* as one action; the object-store engine itself is modelled by the        *)
(* IDB* operators following the IndexedDB standard.                        *)
(***************************************************************************)
EXTENDS Integers, FiniteSets, Sequences, TLC

VARIABLES
  openState,      \* position of initializeDatabase / initDB
  db,             \* the hook's db state: "null" or "open"
  isInitialized,  \* the provider's isInitialized state
  error,          \* the provider's error state
  version,        \* version of the database on disk, 0 when it does not exist
  schema,         \* object stores of the database and their indexes
  data,           \* records of each object store, by primary key
  keyGen,         \* key generator of each object store
  now,            \* the clock read by new Date() and Date.now()
  last,           \* the call made by the latest step and how it settled
  localStorage,   \* the browser's localStorage: the text stored under each key
  console,        \* the messages written with console.error
  salesPage,      \* state of the SalesPage component
  labourPage,     \* state of the LabourPage component
  env,            \* the browser: indexedDB, other tabs, the version initDB asks for
  inflight,       \* the provider calls suspended at an await, per caller
  secondSalesPage,\* state of a SalesPage component in a second tab
  pager           \* state of a pager made by createCursorPagination

\* the flat store and the pages over it
flat == <<localStorage, console, salesPage, labourPage>>

\* what only the open under other environments, the overlapping calls, the
\* second tab and the pager move
beyond == <<env, inflight, secondSalesPage, pager>>

vars == <<openState, db, isInitialized, error, version, schema, data, keyGen, now, last,
          localStorage, console, salesPage, labourPage, env, inflight, secondSalesPage, pager>>

----------------------------------------------------------------------------
(* Bounds *)

MaxTime == 1      \* the clock runs over 0..MaxTime
MaxRecords == 2   \* records stored at once, and keys handed out per collection
MaxNum == 2       \* quantities and prices run over 1..MaxNum
MaxStored == 1    \* length of the arrays handed to storage.set directly
MaxCalls == 2     \* calls of next() and prev() on a pager

Times == 0..MaxTime
Keys == 1..MaxRecords
Nums == 1..MaxNum
Names == {"seed", "feed"}

----------------------------------------------------------------------------
(* Schema registry: the configuration the provider hands to initDB *)

DB_VERSION == 1

\* objectStores of the initDB call, in declaration order.  Index entries
\* are written as in the source: the uniqueness flag sits on the entry
\* itself, not under an `options` field.
objectStores ==
  << [name |-> "activities", keyPath |-> "id", autoIncrement |-> TRUE,
      indices |-> << [name |-> "date", keyPath |-> "date"],
                     [name |-> "activityType", keyPath |-> "activityType"],
                     [name |-> "crop", keyPath |-> "crop"] >>],
     [name |-> "inventory", keyPath |-> "id", autoIncrement |-> TRUE,
      indices |-> << [name |-> "name", keyPath |-> "name", unique |-> TRUE],
                     [name |-> "category", keyPath |-> "category"] >>],
     [name |-> "sales", keyPath |-> "id", autoIncrement |-> TRUE,
      indices |-> << [name |-> "date", keyPath |-> "date"],
                     [name |-> "product", keyPath |-> "product"],
                     [name |-> "customer", keyPath |-> "customer"] >>],
     [name |-> "expenses", keyPath |-> "id", autoIncrement |-> TRUE,
      indices |-> << [name |-> "date", keyPath |-> "date"],
                     [name |-> "category", keyPath |-> "category"],
                     [name |-> "supplier", keyPath |-> "supplier"] >>],
     [name |-> "labour", keyPath |-> "id", autoIncrement |-> TRUE,
      indices |-> << [name |-> "date", keyPath |-> "date"],
                     [name |-> "name", keyPath |-> "name"],
                     [name |-> "task", keyPath |-> "task"] >>] >>

\* Every collection name a caller may pass (the wider StoreName type).
StoreName ==
  {"activities", "inventory", "sales", "expenses", "labour", "weather", "tax-records"}

----------------------------------------------------------------------------
(* Helpers over functions used as JavaScript objects *)

Empty == <<>>

Put(f, k, v) == [x \in (DOMAIN f) \cup {k} |-> IF x = k THEN v ELSE f[x]]

Without(f, k) == [x \in (DOMAIN f) \ {k} |-> f[x]]

\* {...a, ...b}
Spread(a, b) ==
  [x \in (DOMAIN a) \cup (DOMAIN b) |-> IF x \in DOMAIN b THEN b[x] ELSE a[x]]

NoCall == [op |-> "none", outcome |-> "", existed |-> FALSE]

----------------------------------------------------------------------------
(* The flat store: storage of src/unnamed/part_004 over localStorage.      *)
(* A stored text is either JSON, carrying the value it was written from,   *)
(* or text that JSON.parse cannot read.                                    *)

StorageKeys == {"sales", "labour"}

\* localStorage.getItem returns null: nothing is stored under the key
NoItem == [kind |-> "null", json |-> FALSE, body |-> <<>>]

\* the empty string
EmptyText == [kind |-> "empty", json |-> FALSE, body |-> <<>>]

\* a stored text that is not JSON
CorruptText == [kind |-> "text", json |-> FALSE, body |-> <<>>]

\* a field whose value is undefined
UndefinedValue == "undefined"

\* the fields of the stored records that may be undefined (paymentDate?: string)
OptionalFields == {"paymentDate"}

\* JSON.stringify leaves out the fields of an object whose value is undefined
DropUndefined(rec) ==
  [f \in {x \in DOMAIN rec : ~(x \in OptionalFields /\ rec[x] = UndefinedValue)} |-> rec[f]]

\* JSON.stringify(value) of an array of records
JSONstringify(value) ==
  [kind |-> "text", json |-> TRUE,
   body |-> [i \in DOMAIN value |-> DropUndefined(value[i])]]

\* JSON.parse(item) of a JSON text
JSONparse(item) == item.body

\* item ? ... : ... takes null and the empty string as false
IsFalsy(item) == item.kind \in {"null", "empty"}

FlatRes(r, ls, con, threw) ==
  [result |-> r, localStorage |-> ls, console |-> con, threw |-> threw]

Message(text, key) == [text |-> text, key |-> key]

\* storage.get without its try/catch
storageGetUncaught(ls, con, key, defaultValue, fault) ==
  IF fault THEN FlatRes(Empty, ls, con, TRUE)
  ELSE LET item == ls[key] IN
    IF IsFalsy(item) THEN FlatRes(defaultValue, ls, con, FALSE)
    ELSE IF ~item.json THEN FlatRes(Empty, ls, con, TRUE)
    ELSE FlatRes(JSONparse(item), ls, con, FALSE)

\* storage.get(key, defaultValue); fault: localStorage.getItem throws
storageGet(ls, con, key, defaultValue, fault) ==
  IF fault
  THEN FlatRes(defaultValue, ls, con \cup {Message("Error reading from localStorage key", key)}, FALSE)
  ELSE LET item == ls[key] IN
    IF IsFalsy(item) THEN FlatRes(defaultValue, ls, con, FALSE)
    ELSE IF ~item.json
    THEN FlatRes(defaultValue, ls, con \cup {Message("Error reading from localStorage key", key)}, FALSE)
    ELSE FlatRes(JSONparse(item), ls, con, FALSE)

\* storage.set without its try/catch
storageSetUncaught(ls, con, key, value, fault) ==
  IF fault THEN FlatRes(Empty, ls, con, TRUE)
  ELSE FlatRes(Empty, [ls EXCEPT ![key] = JSONstringify(value)], con, FALSE)

\* a set that merges: it keeps what is stored and appends the records of
\* value that are not stored yet
storageSetMerging(ls, con, key, value, fault) ==
  IF fault
  THEN FlatRes(Empty, ls, con \cup {Message("Error writing to localStorage key", key)}, FALSE)
  ELSE LET stored == IF ls[key].json THEN ls[key].body ELSE <<>>
           fresh == SelectSeq(JSONstringify(value).body,
                              LAMBDA rec : \A i \in DOMAIN stored : stored[i] # rec)
       IN FlatRes(Empty, [ls EXCEPT ![key] = [kind |-> "text", json |-> TRUE,
                                              body |-> stored \o fresh]], con, FALSE)

\* storage.set(key, value); fault: localStorage.setItem throws (quota exceeded)
storageSet(ls, con, key, value, fault) ==
  IF fault
  THEN FlatRes(Empty, ls, con \cup {Message("Error writing to localStorage key", key)}, FALSE)
  ELSE FlatRes(Empty, [ls EXCEPT ![key] = JSONstringify(value)], con, FALSE)

\* a remove that empties the whole of localStorage
storageRemoveAll(ls, con, key, fault) ==
  IF fault
  THEN FlatRes(Empty, ls, con \cup {Message("Error removing localStorage key", key)}, FALSE)
  ELSE FlatRes(Empty, [k \in DOMAIN ls |-> NoItem], con, FALSE)

\* storage.remove(key)
storageRemove(ls, con, key, fault) ==
  IF fault
  THEN FlatRes(Empty, ls, con \cup {Message("Error removing localStorage key", key)}, FALSE)
  ELSE FlatRes(Empty, [ls EXCEPT ![key] = NoItem], con, FALSE)

\* storage.clear()
storageClear(ls, con, fault) ==
  IF fault
  THEN FlatRes(Empty, ls, con \cup {Message("Error clearing localStorage", "")}, FALSE)
  ELSE FlatRes(Empty, [k \in DOMAIN ls |-> NoItem], con, FALSE)

\* initializeStorage, run on module load: every key without a text gets '[]'
initializeStorage(ls) ==
  [k \in DOMAIN ls |-> IF IsFalsy(ls[k]) THEN JSONstringify(<<>>) ELSE ls[k]]

----------------------------------------------------------------------------
(* Opening the database: initDB and initializeDatabase *)

\* store.createIndex(indexConfig.name, indexConfig.keyPath, indexConfig.options)
createIndex(indexConfig) ==
  [name |-> indexConfig.name,
   keyPath |-> indexConfig.keyPath,
   unique |-> IF "options" \in DOMAIN indexConfig
              THEN indexConfig.options.unique
              ELSE FALSE]

\* database.createObjectStore(...) followed by the createIndex loop
createObjectStore(storeConfig) ==
  [keyPath |-> storeConfig.keyPath,
   autoIncrement |-> storeConfig.autoIncrement,
   indices |-> [i \in DOMAIN storeConfig.indices |-> createIndex(storeConfig.indices[i])]]

\* request.onupgradeneeded: create every configured store that is missing
onupgradeneeded(sch) ==
  LET missing == {i \in DOMAIN objectStores : objectStores[i].name \notin DOMAIN sch}
      cfgOf(n) == CHOOSE i \in DOMAIN objectStores : objectStores[i].name = n
      names == (DOMAIN sch) \cup {objectStores[i].name : i \in missing}
  IN [n \in names |-> IF n \in DOMAIN sch THEN sch[n]
                      ELSE createObjectStore(objectStores[cfgOf(n)])]

\* a record an earlier session left in the labour collection
EarlierRecord == [id |-> 1, name |-> "seed", createdAt |-> 0, updatedAt |-> 0]

\* the browser the provider usually runs in: indexedDB exists, no other tab
\* holds a connection, and initDB is called with the provider's version
UsualEnv == [indexedDB |-> TRUE, otherTab |-> FALSE, requested |-> DB_VERSION]

\* the callers whose calls may overlap
Callers == {1, 2}

\* a caller with no call suspended
NoAwait == [pc |-> "idle", c |-> "", id |-> 0, updates |-> Empty, existing |-> Empty]

\* No pager was made yet.  A pager holds the arguments it was made with and
\* the locals of createCursorPagination: let hasMore = true; let isReversed
\* = false; const keys = [] (keys is the array's length).  page is what the
\* last next() or prev() resolved with, returned all that next() and prev()
\* resolved with so far, calls their number, and settled tells whether
\* every call so far has settled.
NewPager ==
  [made |-> FALSE, storeName |-> "", indexName |-> "", query |-> {}, pageSize |-> MaxRecords,
   hasMore |-> TRUE, isReversed |-> FALSE, keys |-> 0,
   page |-> <<>>, returned |-> <<>>, calls |-> 0, settled |-> TRUE]

\* The page loads: everything but the database of the browser profile.
InitOutside(e) ==
  /\ env = e
  /\ inflight = [caller \in Callers |-> NoAwait]
  /\ secondSalesPage = [sales |-> <<>>, isLoading |-> TRUE]
  /\ pager = NewPager
  /\ openState = "idle"
  /\ db = "null"
  /\ isInitialized = FALSE
  /\ error = "none"
  /\ now = 0
  /\ last = NoCall
  /\ localStorage = initializeStorage([k \in StorageKeys |-> NoItem])
  /\ console = {}
  /\ salesPage = [sales |-> <<>>, isLoading |-> TRUE]
  /\ labourPage = [labourRecords |-> <<>>, isLoading |-> TRUE, editingId |-> "null",
                   paymentDate |-> UndefinedValue]

\* the database of the profile: absent, or as version DB_VERSION of the
\* provider created it, with a labour record
InitIn(e) ==
  /\ InitOutside(e)
  /\ \E earlier \in BOOLEAN :
       /\ version = IF earlier THEN DB_VERSION ELSE 0
       /\ schema = IF earlier THEN onupgradeneeded(Empty) ELSE Empty
       /\ data = [c \in StoreName |->
                    IF earlier /\ c = "labour" THEN Put(Empty, 1, EarlierRecord) ELSE Empty]
       /\ keyGen = [c \in StoreName |-> IF earlier /\ c = "labour" THEN 2 ELSE 1]

Init == InitIn(UsualEnv)

\* initDB: indexedDB.open(config.name, config.version)
InitDBOpen ==
  /\ openState = "idle"
  /\ env.indexedDB
  /\ openState' = "opening"
  /\ last' = [NoCall EXCEPT !.op = "initDB"]
  /\ UNCHANGED <<db, isInitialized, error, version, schema, data, keyGen, now, flat, beyond>>

\* the upgrade transaction of the open request
UpgradeNeeded ==
  /\ openState = "opening"
  /\ version < env.requested
  /\ ~env.otherTab
  /\ schema' = onupgradeneeded(schema)
  /\ version' = env.requested
  /\ openState' = "upgraded"
  /\ last' = [NoCall EXCEPT !.op = "onupgradeneeded"]
  /\ UNCHANGED <<db, isInitialized, error, data, keyGen, now, flat, beyond>>

\* request.onsuccess: setDb(database); resolve(database), on which
\* initializeDatabase resumes in the same task with setIsInitialized(true)
OpenSuccess ==
  /\ openState = "upgraded" \/ (openState = "opening" /\ version = env.requested)
  /\ db' = "open"
  /\ isInitialized' = TRUE
  /\ openState' = "resolved"
  /\ last' = [NoCall EXCEPT !.op = "onsuccess"]
  /\ UNCHANGED <<error, version, schema, data, keyGen, now, flat, beyond>>

\* an onerror after which the provider sets the ready flag all the same
OpenErrorReady ==
  /\ openState = "opening"
  /\ openState' = "failed"
  /\ error' = "OpenFailed"
  /\ isInitialized' = TRUE
  /\ last' = [NoCall EXCEPT !.op = "onerror", !.outcome = "OpenFailed"]
  /\ UNCHANGED <<db, version, schema, data, keyGen, now, flat, beyond>>

\* request.onerror: onError(error); reject(error); the provider's catch
\* calls handleError again
OpenError ==
  /\ openState = "opening"
  /\ openState' = "failed"
  /\ error' = "OpenFailed"
  /\ last' = [NoCall EXCEPT !.op = "onerror", !.outcome = "OpenFailed"]
  /\ UNCHANGED <<db, isInitialized, version, schema, data, keyGen, now, flat, beyond>>

\* The browsers initDB may be called in, and the versions a caller of the
\* hook may ask for: the provider's, and the next one.
Envs == [indexedDB : BOOLEAN, otherTab : BOOLEAN, requested : {DB_VERSION, DB_VERSION + 1}]

\* a tab can hold a connection only to a database that exists
InitOpen == \E e \in Envs : InitIn(e) /\ (e.otherTab => version > 0)

\* the declared object stores by name
storeConfigOf(n) == objectStores[CHOOSE i \in DOMAIN objectStores : objectStores[i].name = n]

DeclaredNames == {objectStores[i].name : i \in DOMAIN objectStores}

\* an object store an earlier release created with only the indexes `keep`
\* of those declared now
createdWith(storeConfig, keep) ==
  [keyPath |-> storeConfig.keyPath,
   autoIncrement |-> storeConfig.autoIncrement,
   indices |-> [i \in keep |-> createIndex(storeConfig.indices[i])]]

\* the positions an index takes in a declaration
IndexPositions == UNION {DOMAIN objectStores[i].indices : i \in DOMAIN objectStores}

\* the databases that hold a subset of the declared stores, each with a
\* subset of its declared indexes
PartialSchemas(declared) ==
  UNION {
    { [n \in present |-> createdWith(storeConfigOf(n), keep[n])] :
        keep \in {k \in [present -> SUBSET IndexPositions] :
                    \A n \in present : k[n] \subseteq DOMAIN storeConfigOf(n).indices} }
    : present \in SUBSET declared }

\* initDB is called with the next version on a database that an earlier
\* release left at version DB_VERSION with part of the declared schema
InitUpgrade ==
  /\ InitOutside([indexedDB |-> TRUE, otherTab |-> FALSE, requested |-> DB_VERSION + 1])
  /\ version = DB_VERSION
  /\ schema \in PartialSchemas(DeclaredNames)
  /\ data = [c \in StoreName |->
               IF c = "labour" /\ c \in DOMAIN schema
               THEN Put(Empty, 1, EarlierRecord) ELSE Empty]
  /\ keyGen = [c \in StoreName |-> IF c = "labour" /\ c \in DOMAIN schema THEN 2 ELSE 1]

\* initDB where indexedDB is not defined: indexedDB.open throws inside the
\* promise's executor, the promise rejects, and the provider's catch hands
\* the error to handleError
OpenUnsupported ==
  /\ openState = "idle"
  /\ ~env.indexedDB
  /\ openState' = "failed"
  /\ error' = "ReferenceError"
  /\ last' = [NoCall EXCEPT !.op = "initDB", !.outcome = "ReferenceError"]
  /\ UNCHANGED <<db, isInitialized, version, schema, data, keyGen, now, flat, beyond>>

\* the open needs an upgrade while another tab holds a connection, which no
\* versionchange handler closes: the request gets the blocked event, for
\* which initDB sets no handler, and waits
OpenBlocked ==
  /\ openState = "opening"
  /\ version < env.requested
  /\ env.otherTab
  /\ openState' = "blocked"
  /\ last' = [NoCall EXCEPT !.op = "blocked"]
  /\ UNCHANGED <<db, isInitialized, error, version, schema, data, keyGen, now, flat, beyond>>

\* the user closes the other tab; a blocked open goes on
OtherTabCloses ==
  /\ env.otherTab
  /\ env' = [env EXCEPT !.otherTab = FALSE]
  /\ openState' = IF openState = "blocked" THEN "opening" ELSE openState
  /\ last' = [NoCall EXCEPT !.op = "otherTabCloses"]
  /\ UNCHANGED <<db, isInitialized, error, version, schema, data, keyGen, now, flat,
                 inflight, secondSalesPage, pager>>

----------------------------------------------------------------------------
(* The object-store engine: what a request does inside its transaction.    *)
(* A request that fails aborts its transaction, so nothing it did stays.   *)

Undefined == Empty

Res(o, r, d, g, n) ==
  [outcome |-> o, result |-> r, data |-> d, keyGen |-> g, requests |-> n]

\* some other record of store c holds the same value under a unique index
UniqueViolation(d, c, key, item) ==
  \E i \in DOMAIN schema[c].indices :
    LET ix == schema[c].indices[i] IN
      /\ ix.unique
      /\ ix.keyPath \in DOMAIN item
      /\ \E k \in (DOMAIN d[c]) \ {key} :
           /\ ix.keyPath \in DOMAIN d[c][k]
           /\ d[c][k][ix.keyPath] = item[ix.keyPath]

\* the generator moves past every numeric key it sees and never moves back
BumpKeyGen(g, c, key) == [g EXCEPT ![c] = IF key >= @ THEN key + 1 ELSE @]

\* store.add(item) on a store with keyPath 'id' and autoIncrement
IDBAdd(d, g, c, item) ==
  LET key == IF "id" \in DOMAIN item THEN item["id"] ELSE g[c]
      stored == Put(item, "id", key)
  IN IF key \in DOMAIN d[c] \/ UniqueViolation(d, c, key, stored)
     THEN Res("ConstraintError", 0, d, g, 1)
     ELSE Res("ok", key, [d EXCEPT ![c] = Put(@, key, stored)], BumpKeyGen(g, c, key), 1)

\* store.put(item): insert or replace under item.id
IDBPut(d, g, c, item) ==
  LET key == item["id"] IN
    IF UniqueViolation(d, c, key, item)
    THEN Res("ConstraintError", 0, d, g, 1)
    ELSE Res("ok", key, [d EXCEPT ![c] = Put(@, key, item)], BumpKeyGen(g, c, key), 1)

\* store.get(id)
IDBGet(d, g, c, id) ==
  Res("ok", IF id \in DOMAIN d[c] THEN d[c][id] ELSE Undefined, d, g, 1)

\* store.delete(id): succeeds whether or not the key is present
IDBDelete(d, g, c, id) ==
  Res("ok", 0, [d EXCEPT ![c] = Without(@, id)], g, 1)

\* store.clear()
IDBClear(d, g, c) ==
  Res("ok", 0, [d EXCEPT ![c] = Empty], g, 1)

RECURSIVE InKeyOrder(_)
\* the records of a store in ascending key order
InKeyOrder(f) ==
  IF DOMAIN f = {} THEN <<>>
  ELSE LET k == CHOOSE x \in DOMAIN f : \A y \in DOMAIN f : x <= y
       IN <<f[k]>> \o InKeyOrder(Without(f, k))

\* store.getAll()
IDBGetAll(d, g, c) == Res("ok", InKeyOrder(d[c]), d, g, 1)

----------------------------------------------------------------------------
(* The hook: src/hooks/use-indexed-db.ts *)

\* the guard is left out
NotInitializedUnchecked == FALSE

\* if (!db) throw new Error('Database not initialized')
NotInitialized == db = "null"

\* db.transaction(storeName, mode) throws when the store does not exist
HasStore(c) == c \in DOMAIN schema

\* db.transaction throws InvalidStateError on a connection that was closed
Closed == db = "closed"

Guarded(d, g, c, r) ==
  IF NotInitialized THEN Res("NotInitialized", 0, d, g, 0)
  ELSE IF Closed THEN Res("InvalidStateError", 0, d, g, 0)
  ELSE IF ~HasStore(c) THEN Res("NoSuchStore", 0, d, g, 0)
  ELSE r

add(d, g, c, item) == Guarded(d, g, c, IDBAdd(d, g, c, item))

get(d, g, c, id) == Guarded(d, g, c, IDBGet(d, g, c, id))

getAll(d, g, c) == Guarded(d, g, c, IDBGetAll(d, g, c))

update(d, g, c, item) == Guarded(d, g, c, IDBPut(d, g, c, item))

\* a remove that looks the record up first and rejects when it is missing
removeStrict(d, g, c, id) ==
  Guarded(d, g, c, IF id \in DOMAIN d[c] THEN IDBDelete(d, g, c, id)
                   ELSE Res("NotFound", 0, d, g, 1))

remove(d, g, c, id) == Guarded(d, g, c, IDBDelete(d, g, c, id))

\* a clear that empties every collection of the database
clearEverything(d, g, c) ==
  Guarded(d, g, c, Res("ok", 0, [x \in DOMAIN d |-> Empty], g, 1))

clear(d, g, c) == Guarded(d, g, c, IDBClear(d, g, c))

\* What becomes of a request that was placed: it succeeds and its
\* transaction commits; it fails, which fires request.onerror; or it
\* succeeds and its transaction then fails to commit (quota exceeded, the
\* engine aborts), which fires events on the transaction only.
Fates == {"commit", "requestError", "abort"}

\* a read-only transaction has nothing to commit
ReadFates == {"commit", "requestError"}

\* The promise of a hook call whose request, left alone, ends as r:
\* request.onsuccess resolves it, request.onerror calls onError and rejects
\* it, and no handler is set on the transaction, so the promise is already
\* resolved when the transaction aborts and undoes the write.
Fated(d, g, r, fate) ==
  IF r.requests = 0 \/ r.outcome # "ok" \/ fate = "commit" THEN r
  ELSE IF fate = "requestError" THEN Res("RequestError", 0, d, g, r.requests)
  ELSE Res("ok", r.result, d, g, r.requests)

----------------------------------------------------------------------------
(* The provider: DatabaseProvider of src/unnamed/part_003 *)

IsUndefined(x) == DOMAIN x = {}

\* the item's own fields are left out: { createdAt: now, updatedAt: now }
itemWithTimestampsOnly(item, t) == Put(Put(Empty, "createdAt", t), "updatedAt", t)

\* { ...item, createdAt: now, updatedAt: now }
itemWithTimestamps(item, t) == Put(Put(item, "createdAt", t), "updatedAt", t)

addWithTimestamps(d, g, c, item, t) ==
  IF NotInitialized THEN Res("NotInitialized", 0, d, g, 0)
  ELSE add(d, g, c, itemWithTimestamps(item, t))

\* the stored record is replaced instead of merged: { ...updates, id, updatedAt: now }
updatedItemReplaced(existing, updates, id, t) ==
  Put(Put(updates, "id", id), "updatedAt", t)

\* { ...existing, ...updates, id, updatedAt: now }
updatedItem(existing, updates, id, t) ==
  Put(Put(Spread(existing, updates), "id", id), "updatedAt", t)

\* the existence check is left out, so a missing record is put afresh
updateWithTimestampsUpsert(d, g, c, id, updates, t) ==
  IF NotInitialized THEN Res("NotInitialized", 0, d, g, 0)
  ELSE LET r1 == get(d, g, c, id) IN
    IF r1.outcome # "ok" THEN Res(r1.outcome, 0, d, g, r1.requests)
    ELSE LET r2 == update(d, g, c, updatedItem(r1.result, updates, id, t))
         IN Res(r2.outcome, 0, r2.data, r2.keyGen, r1.requests + r2.requests)

updateWithTimestamps(d, g, c, id, updates, t) ==
  IF NotInitialized THEN Res("NotInitialized", 0, d, g, 0)
  ELSE LET r1 == get(d, g, c, id) IN
    IF r1.outcome # "ok" THEN Res(r1.outcome, 0, d, g, r1.requests)
    ELSE IF IsUndefined(r1.result) THEN Res("NotFound", 0, d, g, r1.requests)
    ELSE LET r2 == update(d, g, c, updatedItem(r1.result, updates, id, t))
         IN Res(r2.outcome, 0, r2.data, r2.keyGen, r1.requests + r2.requests)

\* const total = sale.quantity * sale.pricePerUnit; { ...sale, total }
addSale(d, g, sale, t) ==
  addWithTimestamps(d, g, "sales",
                    Put(sale, "total", sale["quantity"] * sale["pricePerUnit"]), t)

\* the partial update updateSale hands on, given the sale it read (or none)
withTotal(updates, sale) ==
  IF IsUndefined(sale) THEN updates
  ELSE LET quantity == IF "quantity" \in DOMAIN updates
                       THEN updates["quantity"] ELSE sale["quantity"]
           pricePerUnit == IF "pricePerUnit" \in DOMAIN updates
                           THEN updates["pricePerUnit"] ELSE sale["pricePerUnit"]
       IN Put(updates, "total", quantity * pricePerUnit)

updateSale(d, g, id, updates, t) ==
  IF "quantity" \in DOMAIN updates \/ "pricePerUnit" \in DOMAIN updates
  THEN LET r0 == get(d, g, "sales", id) IN
    IF r0.outcome # "ok" THEN Res(r0.outcome, 0, d, g, r0.requests)
    ELSE LET r == updateWithTimestamps(d, g, "sales", id, withTotal(updates, r0.result), t)
         IN [r EXCEPT !.requests = @ + r0.requests]
  ELSE updateWithTimestamps(d, g, "sales", id, updates, t)

\* for (const storeName of storeNames) await clear(storeName)
RECURSIVE clearEach(_, _, _)
clearEach(d, g, names) ==
  IF names = {} THEN Res("ok", 0, d, g, 0)
  ELSE LET c == CHOOSE x \in names : TRUE
           r == clear(d, g, c)
           rest == clearEach(r.data, r.keyGen, names \ {c})
       IN IF r.outcome # "ok" THEN r
          ELSE [rest EXCEPT !.requests = @ + r.requests]

clearAllData(d, g) ==
  IF NotInitialized THEN Res("NotInitialized", 0, d, g, 0)
  ELSE clearEach(d, g, DOMAIN schema)

\* addLabour: return addWithTimestamps('labour', labour)
addLabour(d, g, labour, t) == addWithTimestamps(d, g, "labour", labour, t)

\* updateLabour: return updateWithTimestamps('labour', id, updates)
updateLabour(d, g, id, updates, t) == updateWithTimestamps(d, g, "labour", id, updates, t)

\* db.objectStoreNames lists the object stores in sorted order
SortedStoreNames ==
  <<"activities", "expenses", "inventory", "labour", "sales", "tax-records", "weather">>

objectStoreNames(sch) == SelectSeq(SortedStoreNames, LAMBDA n : n \in DOMAIN sch)

\* an entry of a document: Object.entries yields them in insertion order
Entry(key, value) == [key |-> key, isArray |-> TRUE, value |-> value]

\* a key whose value is not an array, such as a metadata key
Scalar(key, value) == [key |-> key, isArray |-> FALSE, value |-> value]

\* for (const storeName of storeNames) data[storeName] = await getAll(storeName)
RECURSIVE exportEach(_, _, _)
exportEach(d, g, names) ==
  IF names = <<>> THEN Res("ok", <<>>, d, g, 0)
  ELSE LET r == getAll(d, g, Head(names))
           rest == exportEach(d, g, Tail(names))
       IN IF r.outcome # "ok" THEN r
          ELSE IF rest.outcome # "ok" THEN rest
          ELSE Res("ok", <<Entry(Head(names), r.result)>> \o rest.result,
                   d, g, r.requests + rest.requests)

exportData(d, g) ==
  IF NotInitialized THEN Res("NotInitialized", 0, d, g, 0)
  ELSE exportEach(d, g, objectStoreNames(schema))

\* only the first item of the array is added
RECURSIVE addEachFirstOnly(_, _, _, _)
addEachFirstOnly(d, g, c, items) ==
  IF items = <<>> THEN Res("ok", 0, d, g, 0)
  ELSE IDBAdd(d, g, c, Head(items))

\* for (const item of items) await store.add(item)
RECURSIVE addEach(_, _, _, _)
addEach(d, g, c, items) ==
  IF items = <<>> THEN Res("ok", 0, d, g, 0)
  ELSE LET r == IDBAdd(d, g, c, Head(items)) IN
    IF r.outcome # "ok" THEN r
    ELSE LET rest == addEach(r.data, r.keyGen, c, Tail(items))
         IN [rest EXCEPT !.requests = @ + r.requests]

\* the body of importData's loop for one entry of the document
importEntry(d, g, entry) ==
  IF ~HasStore(entry.key) THEN Res("ok", 0, d, g, 0)
  ELSE LET r == IDBClear(d, g, entry.key) IN
    IF ~entry.isArray THEN r
    ELSE LET a == addEach(r.data, r.keyGen, entry.key, entry.value)
         IN [a EXCEPT !.requests = @ + r.requests]

\* for (const [storeName, items] of Object.entries(data)); the result
\* counts the entries that were gone through without a failing request
RECURSIVE importEntries(_, _, _)
importEntries(d, g, doc) ==
  IF doc = <<>> THEN Res("ok", 0, d, g, 0)
  ELSE LET r == importEntry(d, g, Head(doc)) IN
    IF r.outcome # "ok" THEN [r EXCEPT !.result = 0]
    ELSE LET rest == importEntries(r.data, r.keyGen, Tail(doc))
         IN [rest EXCEPT !.result = @ + 1, !.requests = @ + r.requests]

\* importData: every request is placed in the one transaction tx over all
\* object stores.  A request that fails aborts tx, which undoes all of it.
\* The function returns tx.done, which an IDBTransaction does not have, so
\* the caller's promise resolves with undefined either way.
importData(d, g, doc) ==
  IF NotInitialized THEN Res("NotInitialized", 0, d, g, 0)
  ELSE IF objectStoreNames(schema) = <<>> THEN Res("InvalidAccessError", 0, d, g, 0)
  ELSE LET r == importEntries(d, g, doc) IN
    IF r.outcome = "ok" THEN Res("ok", Undefined, r.data, r.keyGen, r.requests)
    ELSE Res("ok", Undefined, d, g, r.requests)


----------------------------------------------------------------------------
(* Inputs of the calls *)

\* a total no quantity * pricePerUnit of the model equals
BadTotal == MaxNum * MaxNum + 1

\* Collections the single-record calls are issued on.
GenericStores == {"inventory"}

\* Collections the whole-collection calls are issued on; "weather" is a
\* collection name of the callers that initDB never creates.
ClearStores == {"inventory", "labour", "weather"}

Items ==
  {[name |-> n] : n \in Names}
    \cup {[name |-> "seed", id |-> MaxRecords]}
    \cup {[name |-> "feed", createdAt |-> MaxTime, updatedAt |-> 0]}

Updates ==
  {Empty}
    \cup {[name |-> n] : n \in Names}
    \cup {[id |-> 1]}
    \cup {[createdAt |-> MaxTime]}

Sales == [quantity : Nums, pricePerUnit : Nums]

SaleUpdates ==
  {Empty, [total |-> BadTotal]}
    \cup {[quantity |-> q] : q \in Nums}
    \cup {[pricePerUnit |-> p] : p \in Nums}
    \cup {[quantity |-> q, total |-> BadTotal] : q \in Nums}

\* a stored record as an export holds it
Stored(id, name) == [id |-> id, name |-> name, createdAt |-> 0, updatedAt |-> 0]

\* Documents handed to importData: a backup of two collections with a
\* metadata key and a key that is no collection; a document whose second
\* collection holds the same id twice; a document of records without ids.
Documents ==
  { << Entry("inventory", <<Stored(1, "seed"), Stored(2, "feed")>>),
       Entry("labour", <<Stored(1, "feed")>>),
       Scalar("timestamp", 0),
       Entry("weather", <<Stored(1, "seed")>>) >>,
    << Entry("inventory", <<Stored(1, "feed")>>),
       Entry("labour", <<Stored(1, "seed"), Stored(1, "feed")>>),
       Entry("sales", <<Stored(1, "seed")>>) >>,
    << Entry("inventory", <<[name |-> "seed"]>>) >> }

\* Record arrays handed to storage.set and used as default values: arrays
\* of up to MaxStored records, one of which has a field that is undefined.
StoredRecords ==
  { [id |-> "1", name |-> "Test Item"],
    [id |-> "2", name |-> "Test Item", paymentDate |-> UndefinedValue] }

Values == UNION {[1..n -> StoredRecords] : n \in 0..MaxStored}

\* default values handed to storage.get: the empty array and one that is not
Defaults == {<<>>, <<[id |-> "1", name |-> "Test Item"]>>}

\* Labour records handed to addLabour, one of them with a total that is
\* not hours * wage, and partial updates handed to updateLabour.
Labours ==
  {[hours |-> h, wage |-> 1, total |-> h] : h \in Nums}
    \cup {[hours |-> MaxNum, wage |-> MaxNum, total |-> BadTotal]}

LabourUpdates == {[hours |-> h] : h \in Nums} \cup {[wage |-> MaxNum]}

\* What the user has typed into the form of the labour page on submit;
\* handleInputChange may have left a totalPay of an earlier input in it.
LabourForms ==
  [hoursWorked : Nums, hourlyRate : {MaxNum}, status : {"pending", "paid"}]
    \cup {[hoursWorked |-> 1, hourlyRate |-> 1, status |-> "pending", totalPay |-> BadTotal]}

\* What the user has typed into the form of the sales page on submit.
SaleForms == [quantity : Nums, pricePerUnit : Nums]

\* the collection's key generator is within the keys of the model
Room(c) == keyGen[c] <= MaxRecords

----------------------------------------------------------------------------
(* The calls *)

\* a call settles: its effect on the store, what the caller sees, and the
\* error state set through onError when a request fails.  `existed` tells
\* whether the call found what it addressed (its key, or any record at all).
Settle(op, existed, r) ==
  /\ data' = r.data
  /\ keyGen' = r.keyGen
  /\ error' = IF r.outcome = "ConstraintError" THEN "ConstraintError" ELSE error
  /\ last' = [op |-> op, outcome |-> r.outcome, existed |-> existed]
  /\ UNCHANGED <<openState, db, isInitialized, version, schema, now, flat, beyond>>

AddWithTimestamps ==
  \E c \in GenericStores, item \in Items :
    /\ Room(c)
    /\ Settle("add", FALSE, addWithTimestamps(data, keyGen, c, item, now))

UpdateWithTimestamps ==
  \E c \in GenericStores, id \in Keys, updates \in Updates :
    Settle("update", id \in DOMAIN data[c],
           updateWithTimestamps(data, keyGen, c, id, updates, now))

Get ==
  \E c \in GenericStores, id \in Keys :
    Settle("get", id \in DOMAIN data[c], get(data, keyGen, c, id))

GetAll ==
  \E c \in ClearStores :
    Settle("getAll", data[c] # Empty, getAll(data, keyGen, c))

Remove ==
  \E c \in GenericStores, id \in Keys :
    Settle("remove", id \in DOMAIN data[c], remove(data, keyGen, c, id))

Clear ==
  \E c \in ClearStores :
    Settle("clear", data[c] # Empty, clear(data, keyGen, c))

ClearAllData ==
  Settle("clearAllData", \E c \in StoreName : data[c] # Empty,
         clearAllData(data, keyGen))

AddSale ==
  \E sale \in Sales :
    /\ Room("sales")
    /\ Settle("addSale", FALSE, addSale(data, keyGen, sale, now))

UpdateSale ==
  \E id \in Keys, updates \in SaleUpdates :
    Settle("updateSale", id \in DOMAIN data["sales"],
           updateSale(data, keyGen, id, updates, now))

\* getSale: if (!db) throw ...; return get('sales', id)
getSale(d, g, id) ==
  IF NotInitialized THEN Res("NotInitialized", 0, d, g, 0)
  ELSE get(d, g, "sales", id)

GetSale ==
  \E id \in Keys :
    Settle("getSale", id \in DOMAIN data["sales"], getSale(data, keyGen, id))

\* deleteSale: if (!db) throw ...; await remove('sales', id)
deleteSale(d, g, id) ==
  IF NotInitialized THEN Res("NotInitialized", 0, d, g, 0)
  ELSE remove(d, g, "sales", id)

DeleteSale ==
  \E id \in Keys :
    Settle("deleteSale", id \in DOMAIN data["sales"], deleteSale(data, keyGen, id))

ExportData ==
  Settle("exportData", \E c \in StoreName : data[c] # Empty, exportData(data, keyGen))

\* the key generators stay within the keys of the model
ImportData ==
  \E doc \in Documents :
    LET r == importData(data, keyGen, doc) IN
      /\ \A c \in StoreName : r.keyGen[c] <= MaxRecords + 1
      /\ Settle("importData", importEntries(data, keyGen, doc).outcome = "ok", r)

\* the clock advances
Tick ==
  /\ now < MaxTime
  /\ now' = now + 1
  /\ last' = [NoCall EXCEPT !.op = "tick"]
  /\ UNCHANGED <<openState, db, isInitialized, error, version, schema, data, keyGen, flat, beyond>>

----------------------------------------------------------------------------
(* createCursorPagination *)

\* the order of the index keys: "feed" < "seed"
KeyOrder(k) == IF k = "feed" THEN 1 ELSE 2

\* query, a key or a key range, as the set of index keys it admits
Queries == {{n} : n \in Names} \cup {Names}

PageSizes == 1..MaxRecords

\* the index names a caller passes: an index of the store, and one it lacks
IndexNames == {"name", "date"}

HasIndex(c, indexName) ==
  \E i \in DOMAIN schema[c].indices : schema[c].indices[i].name = indexName

keyPathOf(c, indexName) ==
  schema[c].indices[CHOOSE i \in DOMAIN schema[c].indices :
                      schema[c].indices[i].name = indexName].keyPath

RECURSIVE InIndexOrder(_, _)
\* the records of a store that have the index's key, in ascending order of
\* index key and, within one index key, of primary key
InIndexOrder(f, keyPath) ==
  LET ids == {id \in DOMAIN f : keyPath \in DOMAIN f[id]} IN
    IF ids = {} THEN <<>>
    ELSE LET k == CHOOSE x \in ids :
                    \A y \in ids :
                      \/ KeyOrder(f[x][keyPath]) < KeyOrder(f[y][keyPath])
                      \/ KeyOrder(f[x][keyPath]) = KeyOrder(f[y][keyPath]) /\ x <= y
         IN <<f[k]>> \o InIndexOrder(Without(f, k), keyPath)

\* index.openCursor(query): the records the cursor visits, in its order
openCursor(d, c, indexName, query) ==
  LET keyPath == keyPathOf(c, indexName) IN
    SelectSeq(InIndexOrder(d[c], keyPath), LAMBDA record : record[keyPath] \in query)

\* if (isReversed && cursor.key): the empty string is the falsy index key
Truthy(key) == key # ""

\* getNextPage.  A new cursor is opened on every call.  With isReversed set
\* and a first record under a truthy key, onsuccess calls
\* cursor.advance(-pageSize), which throws TypeError inside the handler:
\* neither resolve nor reject is called.  Otherwise every record the cursor
\* visits is pushed, both branches after the push call cursor.continue(),
\* and the promise resolves, with hasMore set to false, when the cursor
\* has passed the last record.
getNextPage(p, d) ==
  IF Closed THEN [p EXCEPT !.calls = @ + 1, !.page = <<>>]
  ELSE IF ~HasStore(p.storeName) \/ ~HasIndex(p.storeName, p.indexName)
  THEN [p EXCEPT !.calls = @ + 1, !.page = <<>>]
  ELSE LET records == openCursor(d, p.storeName, p.indexName, p.query) IN
    IF records = <<>>
    THEN [p EXCEPT !.calls = @ + 1, !.page = <<>>, !.hasMore = FALSE]
    ELSE IF p.isReversed /\ Truthy(Head(records)[keyPathOf(p.storeName, p.indexName)])
    THEN [p EXCEPT !.calls = @ + 1, !.settled = FALSE]
    ELSE [p EXCEPT !.calls = @ + 1, !.page = records, !.returned = @ \o records,
                   !.keys = @ + Len(records), !.hasMore = FALSE]

\* getPreviousPage: isReversed = true; return getNextPage()
getPreviousPage(p, d) == getNextPage([p EXCEPT !.isReversed = TRUE], d)

SettlePager(op, p) ==
  /\ pager' = p
  /\ last' = [op |-> op, outcome |-> IF p.settled THEN "settled" ELSE "pending",
              existed |-> p.page # <<>>]
  /\ UNCHANGED <<openState, db, isInitialized, error, version, schema, data, keyGen, now,
                 flat, env, inflight, secondSalesPage>>

\* createCursorPagination(storeName, indexName, query, pageSize)
CreateCursorPagination ==
  \E c \in GenericStores, indexName \in IndexNames, query \in Queries, pageSize \in PageSizes :
    /\ ~NotInitialized
    /\ SettlePager("createCursorPagination",
                   [NewPager EXCEPT !.made = TRUE, !.storeName = c, !.indexName = indexName,
                                    !.query = query, !.pageSize = pageSize])

\* pager.next()
PagerNext ==
  /\ pager.made
  /\ pager.calls < MaxCalls
  /\ SettlePager("next", getNextPage(pager, data))

\* pager.prev()
PagerPrev ==
  /\ pager.made
  /\ pager.calls < MaxCalls
  /\ SettlePager("prev", getPreviousPage(pager, data))

----------------------------------------------------------------------------
(* Rebuilding the indexes, and loading the page again *)

\* rebuildIndexes: db.close(); indexedDB.open(db.name, db.version + 1), whose
\* onupgradeneeded creates nothing and whose onsuccess closes the new
\* connection and resolves.  db.version is the version the provider opened
\* with.  The hook keeps the connection it closed as its db.
RebuildIndexes ==
  \E fault \in BOOLEAN :
    /\ db # "null"
    /\ db' = "closed"
    /\ version' = IF ~fault /\ version < env.requested + 1 THEN env.requested + 1 ELSE version
    /\ last' = [op |-> "rebuildIndexes", outcome |-> IF fault THEN "OpenFailed" ELSE "ok",
                existed |-> TRUE]
    /\ UNCHANGED <<openState, isInitialized, error, schema, data, keyGen, now, flat, beyond>>

\* the user loads the page again: the provider mounts anew and calls initDB
Reload ==
  /\ openState \in {"resolved", "failed"}
  /\ openState' = "idle"
  /\ db' = "null"
  /\ isInitialized' = FALSE
  /\ error' = "none"
  /\ last' = [NoCall EXCEPT !.op = "reload"]
  /\ UNCHANGED <<version, schema, data, keyGen, now, flat, beyond>>

----------------------------------------------------------------------------
(* Calls that overlap.  Every request of the hook runs in a transaction of  *)
(* its own, and the caller resumes after each await in a later task, so     *)
(* the requests of two calls interleave one by one.                         *)

\* Partial updates of the overlapping updateSale calls: only a quantity, or
\* only a price.
OverlapSaleUpdates ==
  {[quantity |-> q] : q \in Nums} \cup {[pricePerUnit |-> p] : p \in Nums}

\* Partial updates of the overlapping generic updates.
OverlapUpdates == {[name |-> n] : n \in Names}

\* a call suspended at an await
Await(pc, c, id, updates, existing) ==
  [pc |-> pc, c |-> c, id |-> id, updates |-> updates, existing |-> existing]

\* a step of a call settles or suspends: calls is what is suspended now
SettleStep(op, existed, r, calls) ==
  /\ inflight' = calls
  /\ data' = r.data
  /\ keyGen' = r.keyGen
  /\ error' = IF r.outcome = "ConstraintError" THEN "ConstraintError" ELSE error
  /\ last' = [op |-> op, outcome |-> r.outcome, existed |-> existed]
  /\ UNCHANGED <<openState, db, isInitialized, version, schema, now, flat,
                 env, secondSalesPage, pager>>

\* updateSale up to its await: const sale = await get('sales', id), on which
\* it sets updates.total; it then calls updateWithTimestamps.  The calls
\* that overlap are made on sales that are stored.
UpdateSaleStarts ==
  \E caller \in Callers, id \in DOMAIN data["sales"], updates \in OverlapSaleUpdates :
    /\ inflight[caller].pc = "idle"
    /\ LET r0 == get(data, keyGen, "sales", id) IN
         SettleStep("updateSale.get", id \in DOMAIN data["sales"], r0,
                    IF r0.outcome # "ok" THEN inflight
                    ELSE [inflight EXCEPT ![caller] =
                            Await("saleRead", "sales", id, withTotal(updates, r0.result), Empty)])

\* updateWithTimestamps up to its await, called by updateSale:
\* const existing = await get(storeName, id); if (!existing) throw
UpdateSaleReads ==
  \E caller \in Callers :
    /\ inflight[caller].pc = "saleRead"
    /\ LET call == inflight[caller]
           r1 == IF NotInitialized THEN Res("NotInitialized", 0, data, keyGen, 0)
                 ELSE get(data, keyGen, call.c, call.id)
           found == r1.outcome = "ok" /\ ~IsUndefined(r1.result)
       IN SettleStep("updateSale.read", call.id \in DOMAIN data[call.c],
                     IF r1.outcome = "ok" /\ ~found
                     THEN Res("NotFound", 0, data, keyGen, r1.requests) ELSE r1,
                     [inflight EXCEPT ![caller] =
                        IF found THEN [call EXCEPT !.pc = "read", !.existing = r1.result]
                        ELSE NoAwait])

\* updateWithTimestamps up to its await, called on its own
UpdateReads ==
  \E caller \in Callers, c \in GenericStores, id \in Keys, updates \in OverlapUpdates :
    /\ inflight[caller].pc = "idle"
    /\ LET r1 == IF NotInitialized THEN Res("NotInitialized", 0, data, keyGen, 0)
                 ELSE get(data, keyGen, c, id)
           found == r1.outcome = "ok" /\ ~IsUndefined(r1.result)
       IN SettleStep("update.read", id \in DOMAIN data[c],
                     IF r1.outcome = "ok" /\ ~found
                     THEN Res("NotFound", 0, data, keyGen, r1.requests) ELSE r1,
                     IF found
                     THEN [inflight EXCEPT ![caller] = Await("read", c, id, updates, r1.result)]
                     ELSE inflight)

\* updateWithTimestamps after its await: the record is built from what was
\* read and put
updateResumes(d, g, call, t) ==
  update(d, g, call.c, updatedItem(call.existing, call.updates, call.id, t))

UpdateWrites ==
  \E caller \in Callers :
    /\ inflight[caller].pc = "read"
    /\ LET call == inflight[caller] IN
         SettleStep("update.write", call.id \in DOMAIN data[call.c],
                    updateResumes(data, keyGen, call, now),
                    [inflight EXCEPT ![caller] = NoAwait])

----------------------------------------------------------------------------
(* Calls of the hook whose request or transaction may fail *)

\* Items handed to the hook's update, which puts them under their id.
PutItems == {[id |-> k, name |-> n] : k \in Keys, n \in Names}

\* as Settle; handleError, the hook's onError, has set the error state
SettleFated(op, existed, r) ==
  /\ data' = r.data
  /\ keyGen' = r.keyGen
  /\ error' = IF r.outcome \in {"ConstraintError", "RequestError"} THEN r.outcome ELSE error
  /\ last' = [op |-> op, outcome |-> r.outcome, existed |-> existed]
  /\ UNCHANGED <<openState, db, isInitialized, version, schema, now, flat, beyond>>

HookAdd ==
  \E c \in GenericStores, item \in Items, fate \in Fates :
    /\ Room(c)
    /\ SettleFated("hook.add", FALSE, Fated(data, keyGen, add(data, keyGen, c, item), fate))

HookGet ==
  \E c \in GenericStores, id \in Keys, fate \in ReadFates :
    SettleFated("hook.get", id \in DOMAIN data[c],
                Fated(data, keyGen, get(data, keyGen, c, id), fate))

HookGetAll ==
  \E c \in ClearStores, fate \in ReadFates :
    SettleFated("hook.getAll", data[c] # Empty,
                Fated(data, keyGen, getAll(data, keyGen, c), fate))

HookUpdate ==
  \E c \in GenericStores, item \in PutItems, fate \in Fates :
    SettleFated("hook.update", item["id"] \in DOMAIN data[c],
                Fated(data, keyGen, update(data, keyGen, c, item), fate))

HookRemove ==
  \E c \in GenericStores, id \in Keys, fate \in Fates :
    SettleFated("hook.remove", id \in DOMAIN data[c],
                Fated(data, keyGen, remove(data, keyGen, c, id), fate))

HookClear ==
  \E c \in ClearStores, fate \in Fates :
    SettleFated("hook.clear", data[c] # Empty,
                Fated(data, keyGen, clear(data, keyGen, c), fate))

----------------------------------------------------------------------------
(* Calls of the flat store *)

\* a call of the flat store returns: what it left in localStorage and on
\* the console
SettleFlat(op, outcome, existed, r) ==
  /\ localStorage' = r.localStorage
  /\ console' = r.console
  /\ last' = [op |-> op, outcome |-> outcome, existed |-> existed]
  /\ UNCHANGED <<openState, db, isInitialized, error, version, schema, data, keyGen, now,
                 salesPage, labourPage, beyond>>

\* the pages read with storage.get(key, [])
StorageGet ==
  \E key \in StorageKeys, fault \in BOOLEAN :
    SettleFlat("storage.get",
               IF fault THEN "fault"
               ELSE IF IsFalsy(localStorage[key]) THEN "absent"
               ELSE IF ~localStorage[key].json THEN "corrupt" ELSE "value",
               ~IsFalsy(localStorage[key]),
               storageGet(localStorage, console, key, <<>>, fault))

StorageSet ==
  \E key \in StorageKeys, value \in Values, fault \in BOOLEAN :
    SettleFlat("storage.set", IF fault THEN "fault" ELSE "ok",
               ~IsFalsy(localStorage[key]),
               storageSet(localStorage, console, key, value, fault))

StorageRemove ==
  \E key \in StorageKeys, fault \in BOOLEAN :
    SettleFlat("storage.remove", IF fault THEN "fault" ELSE "ok",
               ~IsFalsy(localStorage[key]),
               storageRemove(localStorage, console, key, fault))

StorageClear ==
  \E fault \in BOOLEAN :
    SettleFlat("storage.clear", IF fault THEN "fault" ELSE "ok",
               \E k \in StorageKeys : ~IsFalsy(localStorage[k]),
               storageClear(localStorage, console, fault))

\* another script of the origin leaves a text under a key that is not JSON
ForeignWrite ==
  \E key \in StorageKeys, text \in {CorruptText, EmptyText} :
    SettleFlat("setItem", "ok", ~IsFalsy(localStorage[key]),
               FlatRes(Empty, [localStorage EXCEPT ![key] = text], console, FALSE))

----------------------------------------------------------------------------
(* The labour methods of the provider *)

AddLabour ==
  \E labour \in Labours :
    /\ Room("labour")
    /\ Settle("addLabour", FALSE, addLabour(data, keyGen, labour, now))

UpdateLabour ==
  \E id \in Keys, updates \in LabourUpdates :
    Settle("updateLabour", id \in DOMAIN data["labour"],
           updateLabour(data, keyGen, id, updates, now))

----------------------------------------------------------------------------
(* The pages over the flat store: src/app/sales/page.tsx and               *)
(* src/app/labour/page.tsx.  A handler runs with the state of the latest   *)
(* render; what the user typed into the form is an input of the submit.    *)

\* record.field of a record that may lack the field
Field(rec, f) == IF f \in DOMAIN rec THEN rec[f] ELSE UndefinedValue

\* Date.now().toString()
DateNowString(t) == ToString(t)

\* array.filter(record => record.id !== id)
RECURSIVE FilterOut(_, _)
FilterOut(records, id) ==
  IF records = <<>> THEN <<>>
  ELSE IF Head(records)["id"] = id THEN FilterOut(Tail(records), id)
  ELSE <<Head(records)>> \o FilterOut(Tail(records), id)

\* a page handler returns: the page's new state, and what storage.set left
SettlePage(op, outcome, existed, r) ==
  /\ localStorage' = r.localStorage
  /\ console' = r.console
  /\ last' = [op |-> op, outcome |-> outcome, existed |-> existed]
  /\ UNCHANGED <<openState, db, isInitialized, error, version, schema, data, keyGen, now, beyond>>

\* SalesPage, useEffect on mount: setSales(storage.get('sales', []))
SalesPageLoad ==
  /\ salesPage.isLoading
  /\ LET r == storageGet(localStorage, console, "sales", <<>>, FALSE) IN
       /\ salesPage' = [sales |-> r.result, isLoading |-> FALSE]
       /\ SettlePage("SalesPage.load", "ok", TRUE, r)
  /\ UNCHANGED labourPage

\* the sale handleSubmit builds from the form
newSale(formData, t) ==
  Put(Put(Put(formData, "id", DateNowString(t)),
          "total", formData["quantity"] * formData["pricePerUnit"]),
      "createdAt", t)

\* SalesPage handleSubmit
SalesHandleSubmit ==
  \E formData \in SaleForms, fault \in BOOLEAN :
    /\ ~salesPage.isLoading
    /\ Len(salesPage.sales) < MaxRecords
    /\ LET updatedSales == Append(salesPage.sales, newSale(formData, now)) IN
         /\ salesPage' = [salesPage EXCEPT !.sales = updatedSales]
         /\ SettlePage("SalesPage.handleSubmit", IF fault THEN "fault" ELSE "ok", FALSE,
                       storageSet(localStorage, console, "sales", updatedSales, fault))
    /\ UNCHANGED labourPage

\* SalesPage handleDelete
SalesHandleDelete ==
  \E i \in DOMAIN salesPage.sales, fault \in BOOLEAN :
    /\ ~salesPage.isLoading
    /\ LET updatedSales == FilterOut(salesPage.sales, salesPage.sales[i]["id"]) IN
         /\ salesPage' = [salesPage EXCEPT !.sales = updatedSales]
         /\ SettlePage("SalesPage.handleDelete", IF fault THEN "fault" ELSE "ok",
                       Len(updatedSales) = Len(salesPage.sales) - 1,
                       storageSet(localStorage, console, "sales", updatedSales, fault))
    /\ UNCHANGED labourPage

\* The sales page open in two tabs: tab 1 is salesPage, tab 2 is
\* secondSalesPage.  Each tab's user types one form, told apart by its
\* quantity.
Tabs == {1, 2}

TabForms(tab) == {[quantity |-> tab, pricePerUnit |-> 1]}

PageOfTab(tab) == IF tab = 1 THEN salesPage ELSE secondSalesPage

OpOfTab(tab, op) == (IF tab = 1 THEN "SalesPage." ELSE "SecondSalesPage.") \o op

\* a handler of a tab's page returns
SettleTab(tab, op, outcome, existed, page, r) ==
  /\ salesPage' = IF tab = 1 THEN page ELSE salesPage
  /\ secondSalesPage' = IF tab = 1 THEN secondSalesPage ELSE page
  /\ localStorage' = r.localStorage
  /\ console' = r.console
  /\ last' = [op |-> OpOfTab(tab, op), outcome |-> outcome, existed |-> existed]
  /\ UNCHANGED <<openState, db, isInitialized, error, version, schema, data, keyGen, now,
                 labourPage, env, inflight, pager>>

\* SalesPage of a tab, useEffect on mount
TabLoad ==
  \E tab \in Tabs :
    /\ PageOfTab(tab).isLoading
    /\ LET r == storageGet(localStorage, console, "sales", <<>>, FALSE) IN
         SettleTab(tab, "load", "ok", TRUE, [sales |-> r.result, isLoading |-> FALSE], r)

\* SalesPage of a tab, handleSubmit
TabHandleSubmit ==
  \E tab \in Tabs, fault \in BOOLEAN :
    \E formData \in TabForms(tab) :
      /\ ~PageOfTab(tab).isLoading
      /\ Len(PageOfTab(tab).sales) < MaxRecords
      /\ LET updatedSales == Append(PageOfTab(tab).sales, newSale(formData, now)) IN
           SettleTab(tab, "handleSubmit", IF fault THEN "fault" ELSE "ok", FALSE,
                     [PageOfTab(tab) EXCEPT !.sales = updatedSales],
                     storageSet(localStorage, console, "sales", updatedSales, fault))

\* SalesPage of a tab, handleDelete
TabHandleDelete ==
  \E tab \in Tabs, fault \in BOOLEAN :
    \E i \in DOMAIN PageOfTab(tab).sales :
      /\ ~PageOfTab(tab).isLoading
      /\ LET sales == PageOfTab(tab).sales
             updatedSales == FilterOut(sales, sales[i]["id"])
         IN SettleTab(tab, "handleDelete", IF fault THEN "fault" ELSE "ok",
                      Len(updatedSales) = Len(sales) - 1,
                      [PageOfTab(tab) EXCEPT !.sales = updatedSales],
                      storageSet(localStorage, console, "sales", updatedSales, fault))

\* LabourPage, useEffect on mount: setLabourRecords(storage.get('labour', []))
LabourPageLoad ==
  /\ labourPage.isLoading
  /\ LET r == storageGet(localStorage, console, "labour", <<>>, FALSE) IN
       /\ labourPage' = [labourPage EXCEPT !.labourRecords = r.result, !.isLoading = FALSE]
       /\ SettlePage("LabourPage.load", "ok", TRUE, r)
  /\ UNCHANGED salesPage

\* LabourPage handleEdit: the form takes the record's fields, among them
\* its paymentDate, which no input of the form changes; editingId its id
LabourHandleEdit ==
  \E i \in DOMAIN labourPage.labourRecords :
    /\ ~labourPage.isLoading
    /\ labourPage' = [labourPage EXCEPT
                        !.editingId = labourPage.labourRecords[i]["id"],
                        !.paymentDate = Field(labourPage.labourRecords[i], "paymentDate")]
    /\ last' = [op |-> "LabourPage.handleEdit", outcome |-> "ok", existed |-> TRUE]
    /\ UNCHANGED <<openState, db, isInitialized, error, version, schema, data, keyGen, now,
                   localStorage, console, salesPage, beyond>>

\* the record handleSubmit builds from the form when no record is edited
newRecord(formData, t) ==
  Put(Put(Put(Put(formData, "id", DateNowString(t)),
              "totalPay", formData["hoursWorked"] * formData["hourlyRate"]),
          "createdAt", t),
      "paymentDate", IF formData["status"] = "paid" THEN DateNowString(t) ELSE UndefinedValue)

\* the record handleSubmit puts in the place of the edited one
editedRecord(formData, editingId, t) ==
  Put(Put(Put(formData, "id", editingId),
          "totalPay", formData["hoursWorked"] * formData["hourlyRate"]),
      "updatedAt", t)

\* LabourPage handleSubmit; typed: the fields of the form the user typed.
\* The writes of the labour page are taken to succeed: a write that fails is
\* an input of StorageSet and of the handlers of the sales page.
LabourHandleSubmit ==
  \E typed \in LabourForms :
    /\ ~labourPage.isLoading
    /\ labourPage.editingId = "null" => Len(labourPage.labourRecords) < MaxRecords
    /\ LET records == labourPage.labourRecords
           formData == IF labourPage.editingId # "null"
                       THEN Put(typed, "paymentDate", labourPage.paymentDate)
                       ELSE typed
           updatedRecords ==
             IF labourPage.editingId # "null"
             THEN [i \in DOMAIN records |->
                     IF records[i]["id"] = labourPage.editingId
                     THEN editedRecord(formData, labourPage.editingId, now)
                     ELSE records[i]]
             ELSE Append(records, newRecord(formData, now))
       IN /\ labourPage' = [labourPage EXCEPT !.labourRecords = updatedRecords,
                                              !.editingId = "null",
                                              !.paymentDate = UndefinedValue]
          /\ SettlePage("LabourPage.handleSubmit", "ok", labourPage.editingId # "null",
                        storageSet(localStorage, console, "labour", updatedRecords, FALSE))
    /\ UNCHANGED salesPage

\* LabourPage handleStatusChange
LabourHandleStatusChange ==
  \E i \in DOMAIN labourPage.labourRecords, status \in {"pending", "paid"} :
    /\ ~labourPage.isLoading
    /\ LET records == labourPage.labourRecords
           id == records[i]["id"]
           changed(record) ==
             Put(Put(record, "status", status),
                 "paymentDate",
                 IF status = "paid" /\ Field(record, "paymentDate") = UndefinedValue
                 THEN DateNowString(now) ELSE Field(record, "paymentDate"))
           updatedRecords ==
             [j \in DOMAIN records |->
                IF records[j]["id"] = id THEN changed(records[j]) ELSE records[j]]
       IN /\ labourPage' = [labourPage EXCEPT !.labourRecords = updatedRecords]
          /\ SettlePage("LabourPage.handleStatusChange", "ok", TRUE,
                        storageSet(localStorage, console, "labour", updatedRecords, FALSE))
    /\ UNCHANGED salesPage

\* LabourPage handleDelete
LabourHandleDelete ==
  \E i \in DOMAIN labourPage.labourRecords :
    /\ ~labourPage.isLoading
    /\ LET updatedRecords == FilterOut(labourPage.labourRecords,
                                       labourPage.labourRecords[i]["id"]) IN
         /\ labourPage' = [labourPage EXCEPT !.labourRecords = updatedRecords]
         /\ SettlePage("LabourPage.handleDelete", "ok",
                       Len(updatedRecords) = Len(labourPage.labourRecords) - 1,
                       storageSet(localStorage, console, "labour", updatedRecords, FALSE))
    /\ UNCHANGED salesPage

----------------------------------------------------------------------------
(* Properties.  A property about one call is stated over every reachable   *)
(* state and every input of the call: what the call does from that state.  *)

Ready(c) == db = "open" /\ HasStore(c)

\* C1: every sale read back through getSale satisfies
\* total = quantity * pricePerUnit, after any addSale and updateSale calls
\* (an updateSale carrying only a total included).
C1_SaleTotalConsistent ==
  \A id \in DOMAIN data["sales"] :
    LET sale == getSale(data, keyGen, id).result IN
      sale["total"] = sale["quantity"] * sale["pricePerUnit"]

\* C2: an update of an existing record changes, in the whole database, only
\* the fields named in the partial update and updatedAt of that record.
C2_UpdateChangesOnlyNamedFields ==
  \A c \in GenericStores, id \in Keys, updates \in Updates :
    (Ready(c) /\ id \in DOMAIN data[c]) =>
      LET r == updateWithTimestamps(data, keyGen, c, id, updates, now)
          before == data[c][id]
      IN /\ \A c2 \in StoreName \ {c} : r.data[c2] = data[c2]
         /\ DOMAIN r.data[c] = DOMAIN data[c]
         /\ \A k \in (DOMAIN data[c]) \ {id} : r.data[c][k] = data[c][k]
         /\ \A f \in DOMAIN before : f \in DOMAIN r.data[c][id]
         /\ \A f \in (DOMAIN before) \ ((DOMAIN updates) \cup {"updatedAt"}) :
              r.data[c][id][f] = before[f]

C2_Witness ==
  /\ last.op = "update" /\ last.outcome = "ok"
  /\ Cardinality(DOMAIN data["inventory"]) >= 2
  /\ data["labour"] # Empty

\* C3: get with the key a successful add returned yields the added record:
\* its fields equal the item's, apart from the key and the two timestamps.
C3_GetAfterAdd ==
  \A c \in GenericStores, item \in Items :
    LET r == addWithTimestamps(data, keyGen, c, item, now)
        got == get(r.data, r.keyGen, c, r.result).result
    IN r.outcome = "ok" =>
         /\ ~IsUndefined(got)
         /\ DOMAIN got = (DOMAIN item) \cup {"id", "createdAt", "updatedAt"}
         /\ \A f \in (DOMAIN item) \ {"id", "createdAt", "updatedAt"} : got[f] = item[f]

C3_Witness ==
  /\ last.op = "add" /\ last.outcome = "ok"
  /\ \E k \in DOMAIN data["inventory"] : data["inventory"][k]["name"] = "feed"

\* C4: adding an inventory item whose name a stored item already has is
\* rejected with a constraint error and leaves the store as it was; an
\* item with a fresh name and no key of its own is added.
C4_DuplicateNameRejected ==
  \A item \in Items :
    Ready("inventory") =>
      LET r == addWithTimestamps(data, keyGen, "inventory", item, now)
          taken == \E k \in DOMAIN data["inventory"] :
                     data["inventory"][k]["name"] = item["name"]
      IN /\ taken => (r.outcome = "ConstraintError" /\ r.data = data)
         /\ (~taken /\ "id" \notin DOMAIN item) => r.outcome = "ok"

\* C5: an update of a key that is not in the collection rejects with the
\* not-found error and changes nothing; no record is created.
C5_UpdateOfMissingKeyRejects ==
  /\ \A c \in GenericStores, id \in Keys, updates \in Updates :
       (Ready(c) /\ id \notin DOMAIN data[c]) =>
         LET r == updateWithTimestamps(data, keyGen, c, id, updates, now)
         IN r.outcome = "NotFound" /\ r.data = data /\ r.keyGen = keyGen
  /\ \A id \in Keys, updates \in SaleUpdates :
       (Ready("sales") /\ id \notin DOMAIN data["sales"]) =>
         LET r == updateSale(data, keyGen, id, updates, now)
         IN r.outcome = "NotFound" /\ r.data = data /\ r.keyGen = keyGen

C5_Witness ==
  /\ last.op = "update" /\ last.outcome = "NotFound" /\ ~last.existed
  /\ data["inventory"] # Empty

\* C6: an update whose partial update carries another id than the key, or
\* another createdAt than the stored one, is rejected and changes nothing;
\* a successful update leaves id and createdAt as they were.
C6_KeyAndCreatedAtImmutable ==
  \A c \in GenericStores, id \in Keys, updates \in Updates :
    (Ready(c) /\ id \in DOMAIN data[c]) =>
      LET r == updateWithTimestamps(data, keyGen, c, id, updates, now)
          before == data[c][id]
          tampered ==
            \/ "id" \in DOMAIN updates /\ updates["id"] # id
            \/ "createdAt" \in DOMAIN updates /\ updates["createdAt"] # before["createdAt"]
      IN /\ tampered => (r.outcome # "ok" /\ r.data = data)
         /\ r.outcome = "ok" =>
              /\ r.data[c][id]["id"] = before["id"]
              /\ r.data[c][id]["createdAt"] = before["createdAt"]

\* C7: every stored record satisfies updatedAt >= createdAt, whatever add
\* and update calls were made under the non-decreasing clock.
C7_UpdatedAtNotBeforeCreatedAt ==
  \A c \in StoreName : \A k \in DOMAIN data[c] :
    data[c][k]["updatedAt"] >= data[c][k]["createdAt"]

\* C8: remove resolves whether or not the key is present; on an absent key
\* it changes nothing, so a second remove of the same key resolves too and
\* leaves the state of the first, where get finds nothing under the key
\* and every other record is as before.
C8_RemoveIsIdempotent ==
  \A c \in GenericStores, id \in Keys :
    Ready(c) =>
      LET r1 == remove(data, keyGen, c, id)
          r2 == remove(r1.data, r1.keyGen, c, id)
      IN /\ r1.outcome = "ok" /\ r2.outcome = "ok"
         /\ id \notin DOMAIN data[c] => (r1.data = data /\ r1.keyGen = keyGen)
         /\ r2.data = r1.data /\ r2.keyGen = r1.keyGen
         /\ IsUndefined(get(r1.data, r1.keyGen, c, id).result)
         /\ DOMAIN r1.data[c] = (DOMAIN data[c]) \ {id}
         /\ \A k \in (DOMAIN data[c]) \ {id} : r1.data[c][k] = data[c][k]
         /\ \A c2 \in StoreName \ {c} : r1.data[c2] = data[c2]

C8_Witness ==
  /\ last.op = "remove" /\ last.outcome = "ok" /\ ~last.existed
  /\ data["inventory"] # Empty

\* C9: after clear(c) getAll(c) is empty and get finds none of the former
\* keys, while every other collection keeps its records; clearAllData
\* leaves every collection empty.
C9_ClearEmptiesOnlyItsCollection ==
  /\ \A c \in ClearStores :
       Ready(c) =>
         LET r == clear(data, keyGen, c) IN
           /\ r.outcome = "ok"
           /\ Len(getAll(r.data, r.keyGen, c).result) = 0
           /\ \A k \in DOMAIN data[c] : IsUndefined(get(r.data, r.keyGen, c, k).result)
           /\ \A c2 \in StoreName \ {c} : r.data[c2] = data[c2]
  /\ db = "open" =>
       LET r == clearAllData(data, keyGen) IN
         /\ r.outcome = "ok"
         /\ \A c \in DOMAIN schema : Len(getAll(r.data, r.keyGen, c).result) = 0

C9_Witness ==
  /\ last.op = "clear" /\ last.outcome = "ok" /\ last.existed
  /\ data["inventory"] = Empty
  /\ data["labour"] # Empty

\* C10: while the hook holds no connection, every add, get, getAll, update,
\* remove and clear rejects as not initialized, issues no request and
\* leaves the stored data and the key generators as they are.
C10_NoConnectionNoRequest ==
  db = "null" =>
    /\ \A c \in GenericStores, item \in Items :
         LET r == addWithTimestamps(data, keyGen, c, item, now) IN
           r.outcome = "NotInitialized" /\ r.requests = 0
             /\ r.data = data /\ r.keyGen = keyGen
    /\ \A c \in GenericStores, id \in Keys, updates \in Updates :
         LET r == updateWithTimestamps(data, keyGen, c, id, updates, now) IN
           r.outcome = "NotInitialized" /\ r.requests = 0
             /\ r.data = data /\ r.keyGen = keyGen
    /\ \A c \in GenericStores, id \in Keys :
         /\ LET r == get(data, keyGen, c, id) IN
              r.outcome = "NotInitialized" /\ r.requests = 0
                /\ r.data = data /\ r.keyGen = keyGen
         /\ LET r == remove(data, keyGen, c, id) IN
              r.outcome = "NotInitialized" /\ r.requests = 0
                /\ r.data = data /\ r.keyGen = keyGen
    /\ \A c \in ClearStores :
         /\ LET r == getAll(data, keyGen, c) IN
              r.outcome = "NotInitialized" /\ r.requests = 0
                /\ r.data = data /\ r.keyGen = keyGen
         /\ LET r == clear(data, keyGen, c) IN
              r.outcome = "NotInitialized" /\ r.requests = 0
                /\ r.data = data /\ r.keyGen = keyGen

C10_Witness ==
  /\ openState = "failed"
  /\ last.op = "clear" /\ last.outcome = "NotInitialized"
  /\ data["labour"] # Empty

\* C11: the keys successful adds return in one collection are strictly
\* increasing, adds of items carrying an id of their own included.  The
\* key generator is above every key the collection has handed out, so a
\* later add returns a key that is at least the generator's value.
C11_KeysStrictlyIncreasing ==
  \A c \in GenericStores, item \in Items :
    LET r == addWithTimestamps(data, keyGen, c, item, now) IN
      (Ready(c) /\ r.outcome = "ok") =>
        /\ r.result >= keyGen[c]
        /\ r.keyGen[c] > r.result

\* C12: once the provider's open has succeeded every collection of the
\* enumeration exists: getAll, add and remove succeed on each of them.
C12_EveryCollectionExists ==
  db = "open" =>
    \A c \in StoreName :
      /\ HasStore(c)
      /\ getAll(data, keyGen, c).outcome = "ok"
      /\ remove(data, keyGen, c, 1).outcome = "ok"
      /\ addWithTimestamps(data, keyGen, c, [location |-> "farm"], now).outcome = "ok"

\* the records of a collection without their keys
Keyless(f) == {Without(f[k], "id") : k \in DOMAIN f}

\* C13: the document exportData returns, handed to importData on a fresh
\* ready store, leaves in every collection the records of the exported
\* store (their keys apart), as many as there were.
C13_ImportOfExportRestores ==
  db = "open" =>
    LET doc == exportData(data, keyGen).result
        r == importData([c \in StoreName |-> Empty], [c \in StoreName |-> 1], doc)
    IN /\ r.outcome = "ok"
       /\ \A c \in DOMAIN schema :
            /\ Keyless(r.data[c]) = Keyless(data[c])
            /\ Cardinality(DOMAIN r.data[c]) = Cardinality(DOMAIN data[c])

C13_Witness ==
  /\ last.op = "exportData" /\ last.outcome = "ok"
  /\ Cardinality(DOMAIN data["inventory"]) >= 2
  /\ data["labour"] # Empty

\* C14: the document exportData returns has one key per existing
\* collection, holding that collection's records in getAll order, and the
\* two metadata keys timestamp (the current time) and schemaVersion.
C14_ExportDocumentShape ==
  db = "open" =>
    LET r == exportData(data, keyGen)
        doc == r.result
    IN /\ r.outcome = "ok"
       /\ {doc[i].key : i \in DOMAIN doc} = (DOMAIN schema) \cup {"timestamp", "schemaVersion"}
       /\ \A i, j \in DOMAIN doc : doc[i].key = doc[j].key => i = j
       /\ \A i \in DOMAIN doc :
            /\ doc[i].key \in DOMAIN schema =>
                 doc[i].value = getAll(data, keyGen, doc[i].key).result
            /\ doc[i].key = "timestamp" => doc[i].value = now
            /\ doc[i].key = "schemaVersion" => doc[i].value = version

\* C15: when a record of the N-th collection of the document cannot be
\* inserted, importData rejects, the collections before N hold the
\* document's records and the collections after N are as they were.
C15_ImportStopsAtFailingCollection ==
  \A doc \in Documents :
    db = "open" =>
      LET r == importData(data, keyGen, doc)
          tried == importEntries(data, keyGen, doc)
          n == tried.result + 1
      IN tried.outcome # "ok" =>
           /\ r.outcome # "ok"
           /\ \A i \in 1..(n - 1) :
                HasStore(doc[i].key) => InKeyOrder(r.data[doc[i].key]) = doc[i].value
           /\ \A i \in (n + 1)..Len(doc) :
                HasStore(doc[i].key) => r.data[doc[i].key] = data[doc[i].key]

\* C16: storage.get never throws; on a stored text that cannot be parsed it
\* returns the default value, writes the error to the console and leaves
\* the stored text as it is.
C16_GetNeverThrows ==
  \A key \in StorageKeys, defaultValue \in Defaults, fault \in BOOLEAN :
    LET r == storageGet(localStorage, console, key, defaultValue, fault) IN
      /\ ~r.threw
      /\ r.localStorage = localStorage
      /\ (~IsFalsy(localStorage[key]) /\ ~localStorage[key].json) =>
           /\ r.result = defaultValue
           /\ Message("Error reading from localStorage key", key) \in r.console

C16_Witness ==
  /\ last.op = "storage.get" /\ last.outcome = "corrupt"
  /\ \E key \in StorageKeys :
       /\ localStorage[key] = CorruptText
       /\ Message("Error reading from localStorage key", key) \in console

\* C17: storage.set never throws; when the write fails it returns, the
\* console names the key, and the text stored under the key stays.
C17_SetNeverThrows ==
  \A key \in StorageKeys, value \in Values, fault \in BOOLEAN :
    LET r == storageSet(localStorage, console, key, value, fault) IN
      /\ ~r.threw
      /\ fault =>
           /\ r.localStorage = localStorage
           /\ Message("Error writing to localStorage key", key) \in r.console

C17_Witness ==
  /\ last.op = "storage.set" /\ last.outcome = "fault" /\ last.existed
  /\ \E key \in StorageKeys :
       /\ localStorage[key].json /\ Len(localStorage[key].body) > 0
       /\ Message("Error writing to localStorage key", key) \in console

\* two arrays of records that read the same field by field: a field that
\* is undefined reads like a field that is missing
SameValue(a, b) ==
  /\ Len(a) = Len(b)
  /\ \A i \in DOMAIN a : DropUndefined(a[i]) = DropUndefined(b[i])

StoredUnder(key) == IF localStorage[key].json THEN localStorage[key].body ELSE <<>>

\* the records the labour page holds and has stored
LabourPageTotalConsistent ==
  /\ \A i \in DOMAIN StoredUnder("labour") :
       LET record == StoredUnder("labour")[i] IN
         record["totalPay"] = record["hoursWorked"] * record["hourlyRate"]
  /\ \A i \in DOMAIN labourPage.labourRecords :
       LET record == labourPage.labourRecords[i] IN
         record["totalPay"] = record["hoursWorked"] * record["hourlyRate"]

\* the records of the provider's labour collection (fields total, hours, wage)
ProviderLabourTotalConsistent ==
  \A k \in DOMAIN data["labour"] :
    LET labour == data["labour"][k] IN
      "total" \in DOMAIN labour => labour["total"] = labour["hours"] * labour["wage"]

\* C19: every stored labour record satisfies totalPay = hoursWorked *
\* hourlyRate, in the flat store of the labour page after any add, edit
\* and status change, and in the provider's labour collection after any
\* addLabour and updateLabour.
C19_LabourTotalConsistent ==
  LabourPageTotalConsistent /\ ProviderLabourTotalConsistent

\* C20: in the flat-store pages no two records of a collection have the
\* same id, whatever adds were made and however the clock moved between
\* them, so deleting by id removes exactly one record.
C20_FlatKeysDistinct ==
  /\ \A i, j \in DOMAIN salesPage.sales :
       salesPage.sales[i]["id"] = salesPage.sales[j]["id"] => i = j
  /\ \A i, j \in DOMAIN StoredUnder("sales") :
       StoredUnder("sales")[i]["id"] = StoredUnder("sales")[j]["id"] => i = j
  /\ last.op = "SalesPage.handleDelete" => last.existed

\* C21: every add, get, getAll, update, remove and clear whose request or
\* transaction fails rejects, leaves the store as it was, and has issued
\* its request exactly once.
C21_FailureRejectsOnce ==
  /\ \A c \in GenericStores, fate \in Fates \ {"commit"} :
       Ready(c) =>
         /\ \A item \in Items :
              LET r0 == add(data, keyGen, c, item)
                  r == Fated(data, keyGen, r0, fate)
              IN r0.outcome = "ok" =>
                   r.outcome # "ok" /\ r.requests = 1 /\ r.data = data
         /\ \A item \in PutItems :
              LET r0 == update(data, keyGen, c, item)
                  r == Fated(data, keyGen, r0, fate)
              IN r0.outcome = "ok" =>
                   r.outcome # "ok" /\ r.requests = 1 /\ r.data = data
         /\ \A id \in Keys :
              LET r == Fated(data, keyGen, remove(data, keyGen, c, id), fate)
              IN r.outcome # "ok" /\ r.requests = 1 /\ r.data = data
         /\ LET r == Fated(data, keyGen, clear(data, keyGen, c), fate)
            IN r.outcome # "ok" /\ r.requests = 1 /\ r.data = data
  /\ \A c \in GenericStores, fate \in ReadFates \ {"commit"} :
       Ready(c) =>
         /\ \A id \in Keys :
              LET r == Fated(data, keyGen, get(data, keyGen, c, id), fate)
              IN r.outcome # "ok" /\ r.requests = 1
         /\ LET r == Fated(data, keyGen, getAll(data, keyGen, c), fate)
            IN r.outcome # "ok" /\ r.requests = 1

\* the part of C21 that holds: a request that fails rejects the call
RequestErrorRejects ==
  \A c \in GenericStores, item \in Items, id \in Keys :
    Ready(c) =>
      /\ LET r0 == add(data, keyGen, c, item)
             r == Fated(data, keyGen, r0, "requestError")
         IN r0.outcome = "ok" => (r.outcome = "RequestError" /\ r.requests = 1 /\ r.data = data)
      /\ LET r == Fated(data, keyGen, remove(data, keyGen, c, id), "requestError")
         IN r.outcome = "RequestError" /\ r.requests = 1 /\ r.data = data
      /\ LET r == Fated(data, keyGen, get(data, keyGen, c, id), "requestError")
         IN r.outcome = "RequestError" /\ r.requests = 1

\* the open cannot proceed: no indexedDB, a database newer than the version
\* asked for, or an upgrade blocked by another tab's connection
CannotProceed ==
  \/ openState = "idle" /\ ~env.indexedDB
  \/ openState = "opening" /\ version > env.requested
  \/ openState = "blocked"

\* initDB has rejected, the error has reached handleError, not ready
OpenRejected == openState = "failed" /\ error # "none" /\ ~isInitialized

\* the cases other than the blocked upgrade: no indexedDB, the open fails
UnblockedOpenRejects == (CannotProceed /\ openState # "blocked") ~> OpenRejected

\* C22: when the open cannot proceed (no indexedDB, the open fails, the
\* upgrade is blocked by another connection) initDB eventually rejects with
\* the error reported and isInitialized false; a blocked open does so
\* unless the other connection is closed first.
C22_OpenEventuallyRejects ==
  /\ UnblockedOpenRejects
  /\ (openState = "blocked") ~> (OpenRejected \/ ~env.otherTab)

\* C23: once two overlapping updateSale calls on a sale, one changing the
\* quantity and one the price, have both completed, every stored sale
\* satisfies total = quantity * pricePerUnit.
C23_OverlappingUpdateSaleTotal ==
  (\A caller \in Callers : inflight[caller].pc = "idle") =>
    \A id \in DOMAIN data["sales"] :
      LET sale == data["sales"][id] IN
        sale["total"] = sale["quantity"] * sale["pricePerUnit"]

\* C24: when two instances of the sales page each write their array back,
\* the stored array is the array of the instance that wrote last: nothing
\* of what the other instance wrote is merged into it.
C24_LastWriteWins ==
  /\ (last.op \in {"SalesPage.handleSubmit", "SalesPage.handleDelete"} /\ last.outcome = "ok")
       => SameValue(StoredUnder("sales"), salesPage.sales)
  /\ (last.op \in {"SecondSalesPage.handleSubmit", "SecondSalesPage.handleDelete"}
        /\ last.outcome = "ok")
       => SameValue(StoredUnder("sales"), secondSalesPage.sales)

\* both tabs loaded the empty array, each added a sale and wrote it (no
\* write failed), the second tab last: the first tab's sale is not stored
C24_Witness ==
  /\ last.op = "SecondSalesPage.handleSubmit" /\ last.outcome = "ok"
  /\ console = {}
  /\ Len(salesPage.sales) = 1 /\ Len(secondSalesPage.sales) = 1
  /\ Len(StoredUnder("sales")) = 1
  /\ StoredUnder("sales")[1] = secondSalesPage.sales[1]
  /\ StoredUnder("sales")[1] # salesPage.sales[1]

\* every declared index of store n exists in sch
HasDeclaredIndexes(sch, n) ==
  \A i \in DOMAIN storeConfigOf(n).indices :
    \E j \in DOMAIN sch[n].indices :
      sch[n].indices[j].name = storeConfigOf(n).indices[i].name

\* every declared store exists in sch with every declared index
HasDeclaredSchema(sch) ==
  \A n \in DeclaredNames : n \in DOMAIN sch /\ HasDeclaredIndexes(sch, n)

\* the upgrade keeps every store it finds, with its records, as it was
UpgradeKeepsStores ==
  [][UpgradeNeeded =>
       /\ data' = data
       /\ \A n \in DOMAIN schema : n \in DOMAIN schema' /\ schema'[n] = schema[n]]_vars

\* C25: after the upgrade phase of initDB has run on a database holding any
\* subset of the declared stores and indexes, every declared store exists
\* with every declared index, and running the upgrade again changes nothing.
C25_UpgradeCompletesSchema ==
  openState = "upgraded" =>
    /\ HasDeclaredSchema(schema)
    /\ onupgradeneeded(schema) = schema

\* the steps of the open request, as `last` names them
OpenSteps == {"none", "initDB", "onupgradeneeded", "onsuccess", "onerror", "blocked",
              "otherTabCloses", "tick", "reload"}

\* the errors with which an open fails
OpenFailures == {"OpenFailed", "ReferenceError"}

\* C26: isInitialized is true only when the open has succeeded and db is
\* the connection; after a failed open isInitialized is false and error
\* holds the failure; and a call on a collection made before the open has
\* completed starts no transaction: it is rejected and stores nothing.
C26_ReadyOnlyAfterOpen ==
  /\ isInitialized => (openState = "resolved" /\ db # "null")
  /\ openState = "failed" => (~isInitialized /\ db = "null" /\ error \in OpenFailures)
  /\ openState # "resolved" =>
       /\ last.op \notin OpenSteps => last.outcome = "NotInitialized"
       /\ \A c \in GenericStores, item \in Items :
            LET r == addWithTimestamps(data, keyGen, c, item, now) IN
              r.outcome = "NotInitialized" /\ r.requests = 0 /\ r.data = data

\* the open has failed and a call made afterwards was rejected
C26_Witness ==
  /\ openState = "failed"
  /\ error = "OpenFailed"
  /\ ~isInitialized
  /\ last.op = "add" /\ last.outcome = "NotInitialized"

\* C27: after any sequence of add, edit and status-change operations of the
\* labour page, every stored labour record carries the createdAt it was
\* created with (the time from which handleSubmit also made its id).
C27_EditKeepsCreatedAt ==
  \A i \in DOMAIN StoredUnder("labour") :
    LET record == StoredUnder("labour")[i] IN
      /\ "createdAt" \in DOMAIN record
      /\ record["id"] = DateNowString(record["createdAt"])

\* rebuildIndexes leaves every record and every store as it was
RebuildKeepsRecords ==
  [][RebuildIndexes => (data' = data /\ schema' = schema /\ keyGen' = keyGen)]_vars

\* C29: once rebuildIndexes has resolved, the calls of the provider on the
\* collections succeed, and the database is at a version that initDB with
\* the provider's declared version can open.
C29_RebuildKeepsStoreUsable ==
  (last.op = "rebuildIndexes" /\ last.outcome = "ok") =>
    /\ \A c \in GenericStores :
         /\ getAll(data, keyGen, c).outcome = "ok"
         /\ \A id \in Keys :
              /\ get(data, keyGen, c, id).outcome = "ok"
              /\ remove(data, keyGen, c, id).outcome = "ok"
    /\ version <= DB_VERSION

\* no record occurs twice in a sequence of records
NoRecordTwice(records) ==
  \A i, j \in DOMAIN records : records[i]["id"] = records[j]["id"] => i = j

\* C30: every call of next() and prev() on a pager settles, a page holds at
\* most pageSize records, and no record is returned on two pages.
C30_PagerPages ==
  /\ pager.settled
  /\ Len(pager.page) <= pager.pageSize
  /\ NoRecordTwice(pager.returned)

\* C28: an update that has read its record and resumes after the record
\* was removed leaves the collection without a record under that key.
C28_UpdateNeverCreates ==
  \A caller \in Callers :
    LET call == inflight[caller] IN
      (call.pc = "read" /\ call.id \notin DOMAIN data[call.c]) =>
        call.id \notin DOMAIN updateResumes(data, keyGen, call, now).data[call.c]

Opening ==
  \/ InitDBOpen
  \/ UpgradeNeeded
  \/ OpenSuccess
  \/ OpenError

\* the generic record store
Next ==
  \/ Opening
  \/ AddWithTimestamps
  \/ UpdateWithTimestamps
  \/ Get
  \/ GetAll
  \/ Remove
  \/ Clear
  \/ ClearAllData
  \/ Tick

Spec == Init /\ [][Next]_vars

\* the sales collection, reached only through the sale methods
NextSales ==
  \/ Opening
  \/ AddSale
  \/ UpdateSale
  \/ GetSale
  \/ DeleteSale
  \/ Tick

SpecSales == Init /\ [][NextSales]_vars

\* backup and restore over the generic record store
NextBackup ==
  \/ Opening
  \/ AddWithTimestamps
  \/ Remove
  \/ ExportData
  \/ ImportData
  \/ Tick

SpecBackup == Init /\ [][NextBackup]_vars

\* the flat store on its own
NextStorage ==
  \/ StorageGet
  \/ StorageSet
  \/ StorageRemove
  \/ StorageClear
  \/ ForeignWrite

SpecStorage == Init /\ [][NextStorage]_vars

\* the labour methods of the provider
NextLabour ==
  \/ Opening
  \/ AddLabour
  \/ UpdateLabour
  \/ Tick

SpecLabour == Init /\ [][NextLabour]_vars

\* the labour page over the flat store
NextLabourPage ==
  \/ LabourPageLoad
  \/ LabourHandleEdit
  \/ LabourHandleSubmit
  \/ LabourHandleStatusChange
  \/ LabourHandleDelete
  \/ Tick

SpecLabourPage == Init /\ [][NextLabourPage]_vars

\* the sales page over the flat store
NextSalesPage ==
  \/ SalesPageLoad
  \/ SalesHandleSubmit
  \/ SalesHandleDelete
  \/ Tick

SpecSalesPage == Init /\ [][NextSalesPage]_vars

\* the hook's calls under failing requests and transactions
NextFaults ==
  \/ Opening
  \/ HookAdd
  \/ HookGet
  \/ HookGetAll
  \/ HookUpdate
  \/ HookRemove
  \/ HookClear
  \/ Tick

SpecFaults == Init /\ [][NextFaults]_vars

\* the open in every browser, with some calls after it
NextOpen ==
  \/ Opening
  \/ OpenUnsupported
  \/ OpenBlocked
  \/ OtherTabCloses
  \/ AddWithTimestamps
  \/ Remove
  \/ Tick

\* useEffect calls initializeDatabase once the provider is mounted, and the
\* browser delivers the events of the open request; nothing makes the user
\* close the other tab
SpecOpen ==
  /\ InitOpen
  /\ [][NextOpen]_vars
  /\ WF_vars(InitDBOpen)
  /\ WF_vars(OpenUnsupported)
  /\ WF_vars(OpenBlocked)
  /\ WF_vars(UpgradeNeeded)
  /\ WF_vars(OpenSuccess)
  /\ WF_vars(OpenError)

\* updateSale calls that overlap, within one tick of the clock
NextOverlapSales ==
  \/ Opening
  \/ AddSale
  \/ UpdateSaleStarts
  \/ UpdateSaleReads
  \/ UpdateWrites

SpecOverlapSales == Init /\ [][NextOverlapSales]_vars

\* updates that overlap with one another and with remove
NextOverlap ==
  \/ Opening
  \/ AddWithTimestamps
  \/ UpdateReads
  \/ UpdateWrites
  \/ Remove
  \/ Tick

SpecOverlap == Init /\ [][NextOverlap]_vars

\* the sales page open in two tabs
NextTwoTabs ==
  \/ TabLoad
  \/ TabHandleSubmit
  \/ TabHandleDelete
  \/ Tick

SpecTwoTabs == Init /\ [][NextTwoTabs]_vars

\* initDB on a database that holds part of the declared schema
NextUpgrade == Opening

SpecUpgrade == InitUpgrade /\ [][NextUpgrade]_vars

\* the generic record store with rebuildIndexes and page reloads
NextRebuild ==
  \/ Opening
  \/ RebuildIndexes
  \/ Reload
  \/ AddWithTimestamps
  \/ Get
  \/ GetAll
  \/ Remove
  \/ Tick

SpecRebuild == Init /\ [][NextRebuild]_vars

\* pagers over the inventory
NextPager ==
  \/ Opening
  \/ AddWithTimestamps
  \/ CreateCursorPagination
  \/ PagerNext
  \/ PagerPrev

SpecPager == Init /\ [][NextPager]_vars

====
